---- MODULE Spec2Model ----
(***************************************************************************)
(* Restore-reconciliation engine of sweep (src/src/restore.rs).            *)
(*                                                                         *)
(* One behaviour of the model is one call of either                        *)
(*   restore_from_log_with_progress(log, _, progress_callback)  (op "log") *)
(*   restore_path(path, _)                                      (op "path")*)
(* against a trash store (the Recycle Bin) and a filesystem.  Under        *)
(* SpecLast a behaviour is one call of restore_last_with_progress, under   *)
(* SpecClean one call of clean_all (src/src/cleaner.rs), under SpecScan    *)
(* one call of scan_all (src/src/scanner.rs); under SpecRerun a call of     *)
(* restore_from_log_with_progress that returned Ok may be followed by a    *)
(* second call with the same log.  Paths are                               *)
(* sequences of one-character strings so that normalisation, prefix tests  *)
(* and parent computation are computed as the code computes them.          *)
(***************************************************************************)
EXTENDS Integers, Sequences, FiniteSets, TLC

\* ------------------------------------------------------------------ bounds
MaxLog == 2      \* records in a deletion log
MaxTrash == 2    \* entries enumerated by os_limited::list()
MaxFs == 1       \* paths (with their ancestors) present on disk at the start
MaxSessions == 2 \* deletion logs in the history store
MaxPaths == 2    \* paths a category's scan result lists

\* ------------------------------------------------------------------ paths
P_b   == <<"/", "b">>
P_bx  == <<"/", "b", "/", "x">>
P_bX  == <<"/", "b", "/", "X">>
P_bc  == <<"/", "b", "c">>
P_bxz == <<"/", "b", "/", "x", "/", "z">>
R_wB  == <<"\\", "B">>

\* original_parent.join(name) of the entries a trash store may hold
TrashPaths == {P_b, P_bx, P_bX, P_bc, P_bxz}
\* DeletionRecord.path values
RecordPaths == {P_b, P_bx, R_wB}

None == <<>>

VARIABLES
    platform,     \* "windows" | "unix": which cfg branch was compiled
    op,           \* "log" | "path" | "clean": the entry point called
    log,          \* DeletionLog.records
    target,       \* restore_path's path argument (None for op "log")
    hasCb,        \* progress_callback.is_some()
    trashList,    \* what os_limited::list() returns: original path of each item
    inTrash,      \* indices of trashList still in the trash store
    fs,           \* filesystem: keys of the paths that exist
    pc,           \* position in the running call
    ret,          \* "none" | "ok" | "err": the call's Result
    idx,          \* index of the record under the for loop (op "log")
    pos,          \* next index of recycle_bin_items to look at (op "path")
    total,        \* total_to_restore
    bin_map,      \* HashMap<String, &TrashItem>: normalized path -> item index
    visited,      \* keys of bin_map the fallback loop has already yielded
    found_any, restored_count, restore_errors, path_bytes,
    result,       \* RestoreResult
    events,       \* history: callback invocations and restore_file calls, in order
    lookups,      \* history: record indices for which bin_map was consulted
    contrib,      \* history: what each record added to restored, errors, not_found, bytes
    fsAt,         \* history: the filesystem when each record's processing began
    listed,       \* history: "none" | "ok" | "err": what os_limited::list() returned
    sessions,     \* the deletion history store, newest first (restore_last)
    loaded,       \* index in sessions of the log load_log returned, 0 if none
    lastErr,      \* which error restore_last_with_progress itself returned, or "none"
    call,         \* 1, or 2 in the second of two successive calls with one log
    first,        \* history: the snapshot and the RestoreResult of the first call
    options,      \* scan_all: ScanOptions, per category whether it is enabled
    results,      \* ScanResults, per category its items and paths
    skip_confirm, \* clean_all: the skip_confirm argument
    asked,        \* clean_all: "no" | "flush_err" | "read_err" | "read": the prompt
    input,        \* clean_all: the line read_line stored
    cleaned,      \* clean_all: let mut cleaned
    errors,       \* clean_all: let mut errors
    ci,           \* clean_all: index of the path under the current for loop
    calls         \* history: the category operations invoked, in order

cleanVars == <<options, results, skip_confirm, asked, input, cleaned, errors, ci, calls>>

vars == <<platform, op, log, target, hasCb, trashList, inTrash, fs, pc, ret, idx, pos,
          total, bin_map, visited, found_any, restored_count, restore_errors,
          path_bytes, result, events, lookups, contrib, fsAt, listed, sessions, loaded,
          lastErr, call, first, cleanVars>>

\* ------------------------------------------------------- string functions
Lower(c) == CASE c = "B" -> "b" [] c = "X" -> "x" [] OTHER -> c

\* mutant: separators are unified on windows but the case is kept
normalize_path_for_comparison_KeepsCase(plat, p) ==
    IF plat = "windows"
    THEN [i \in 1..Len(p) |-> IF p[i] = "\\" THEN "/" ELSE p[i]]
    ELSE p

\* path.replace('\\', "/").to_lowercase() on windows, path.to_string() elsewhere
normalize_path_for_comparison(plat, p) ==
    IF plat = "windows"
    THEN [i \in 1..Len(p) |-> Lower(IF p[i] = "\\" THEN "/" ELSE p[i])]
    ELSE p

starts_with(s, pre) == Len(pre) <= Len(s) /\ SubSeq(s, 1, Len(pre)) = pre

ends_with_slash(s) == Len(s) > 0 /\ s[Len(s)] = "/"

\* mutant: the trailing separator is not appended
with_sep_NoSeparator(n) == n

\* normalized_record_path_with_sep / normalized_path_with_sep
with_sep(n) == IF ends_with_slash(n) THEN n ELSE Append(n, "/")

\* ------------------------------------------------------------- filesystem
\* The key under which the filesystem knows a path: windows filesystems are
\* case-insensitive and take both separators, others compare byte for byte.
FsKey(plat, p) == normalize_path_for_comparison(plat, p)

\* Every proper ancestor directory of a key (dest.parent() and its parents),
\* the root excluded: what create_dir_all(parent) makes exist.
AncestorKeys(k) == {SubSeq(k, 1, i - 1) : i \in {j \in 2..Len(k) : k[j] = "/"}}

Closure(plat, S) == UNION {AncestorKeys(FsKey(plat, p)) \cup {FsKey(plat, p)} : p \in S}

\* mutant: the destination is not checked, the item is moved over what is there
restore_file_NoExistsCheck(plat, paths, item, fsNow, trashNow) ==
    LET dest == FsKey(plat, paths[item])
        fs1 == fsNow \cup AncestorKeys(dest)
    IN  {[out |-> "cap_failed", fs |-> fs1, inTrash |-> trashNow]}
        \cup
        (IF item \in trashNow
         THEN {[out |-> "ok", fs |-> fs1 \cup {dest}, inTrash |-> trashNow \ {item}]}
         ELSE {})

\* mutant: the destination is checked only after the item has been moved back
restore_file_CheckAfterRestore(plat, paths, item, fsNow, trashNow) ==
    LET dest == FsKey(plat, paths[item])
        fs1 == fsNow \cup AncestorKeys(dest)
    IN  {[out |-> "cap_failed", fs |-> fs1, inTrash |-> trashNow]}
        \cup
        (IF item \in trashNow
         THEN {[out |-> IF dest \in fs1 THEN "exists" ELSE "ok",
                fs |-> fs1 \cup {dest}, inTrash |-> trashNow \ {item}]}
         ELSE {})

\* restore_file(item): the set of possible outcomes [out, fs, inTrash].
\*   "mkdir_failed": create_dir_all(parent) failed (only when the parent is missing)
\*   "exists":       dest.exists(), the restore capability is not invoked
\*   "cap_failed":   os_limited::restore_all returned an error
\*   "ok":           the item was moved back to dest
restore_file(plat, paths, item, fsNow, trashNow) ==
    LET dest == FsKey(plat, paths[item])
        parentMissing == ~(AncestorKeys(dest) \subseteq fsNow)
        fs1 == fsNow \cup AncestorKeys(dest)
    IN  (IF parentMissing
         THEN {[out |-> "mkdir_failed", fs |-> fsNow, inTrash |-> trashNow]}
         ELSE {})
        \cup
        (IF dest \in fs1
         THEN {[out |-> "exists", fs |-> fs1, inTrash |-> trashNow]}
         ELSE {[out |-> "cap_failed", fs |-> fs1, inTrash |-> trashNow]}
              \cup
              (IF item \in trashNow
               THEN {[out |-> "ok", fs |-> fs1 \cup {dest},
                      inTrash |-> trashNow \ {item}]}
               ELSE {}))

\* std::fs::metadata(&restored_path).map(|m| m.len()).unwrap_or(0): the length
\* of the restored file is the environment's; the model gives every file length 1.
FileLen(item) == 1

\* ------------------------------------------------------------------ inputs
\* mutant: the permanent flag is not tested
Restorable_IgnoresPermanent(r) == r.success

\* mutant: the success flag is not tested
Restorable_IgnoresSuccess(r) == ~r.permanent

\* r.success && !r.permanent
Restorable(r) == r.success /\ ~r.permanent

\* size_bytes of the i-th record: distinct powers of two, so that restored_bytes
\* tells which records contributed.
SizeAt(i) == 2 ^ (i - 1)

Logs ==
    UNION {
      {[i \in 1..n |-> [path |-> ps[i], success |-> ss[i], permanent |-> pm[i],
                        size_bytes |-> SizeAt(i)]] :
         ps \in [1..n -> RecordPaths], ss \in [1..n -> BOOLEAN],
         pm \in [1..n -> BOOLEAN]} :
      n \in 0..MaxLog}

TrashLists == UNION {[1..n -> TrashPaths] : n \in 0..MaxTrash}

FsSeeds == {S \in SUBSET TrashPaths : Cardinality(S) <= MaxFs}

\* ScanResults of a scan that found nothing
CategoryResult(cat, n) == [items |-> n, paths |-> [k \in 1..n |-> <<cat, k>>]]

NoResults == [c \in {"cache", "temp", "trash", "build"} |-> CategoryResult(c, 0)]

NoOptions == [c \in {"cache", "temp", "trash", "build"} |-> FALSE]

\* clean_all and scan_all are not running
CleanIdle ==
    /\ options = NoOptions
    /\ results = NoResults
    /\ skip_confirm = FALSE
    /\ asked = "no"
    /\ input = <<>>
    /\ cleaned = 0
    /\ errors = 0
    /\ ci = 1
    /\ calls = <<>>

ZeroResult == [restored |-> 0, restored_bytes |-> 0, errors |-> 0, not_found |-> 0]

\* no call has returned yet
NoFirst == [result |-> ZeroResult, trashList |-> <<>>]

Init ==
    /\ platform \in {"windows", "unix"}
    /\ \/ op = "log" /\ log \in Logs /\ target = None /\ hasCb \in BOOLEAN
       \/ op = "path" /\ log = <<>> /\ target \in RecordPaths /\ hasCb = FALSE
    /\ trashList \in TrashLists
    /\ inTrash = 1..Len(trashList)
    /\ \E S \in FsSeeds : fs = Closure(platform, S)
    /\ pc = "start"
    /\ ret = "none"
    /\ idx = 1
    /\ pos = 1
    /\ total = 0
    /\ bin_map = <<>>
    /\ visited = {}
    /\ found_any = FALSE
    /\ restored_count = 0
    /\ restore_errors = 0
    /\ path_bytes = 0
    /\ result = ZeroResult
    /\ events = <<>>
    /\ lookups = {}
    /\ contrib = [i \in 1..Len(log) |-> [restored |-> 0, errors |-> 0, not_found |-> 0,
                                         bytes |-> 0]]
    /\ fsAt = [i \in 1..Len(log) |-> {}]
    /\ listed = "none"
    /\ sessions = <<>>
    /\ loaded = 0
    /\ lastErr = "none"
    /\ call = 1 /\ first = NoFirst
    /\ CleanIdle

\* --------------------------------------------------------------- helpers
\* item.original_parent.join(&item.name), normalized
ItemKey(i) == normalize_path_for_comparison(platform, trashList[i])

\* mutant: the first entry enumerated for a key is kept instead of the last
BuildBinMap_FirstWins ==
    LET keys == {ItemKey(i) : i \in 1..Len(trashList)}
    IN  [k \in keys |->
           CHOOSE i \in 1..Len(trashList) :
             /\ ItemKey(i) = k
             /\ \A j \in 1..Len(trashList) : ItemKey(j) = k => j >= i]

\* lines 102-109: later inserts replace earlier ones under the same key
BuildBinMap ==
    LET keys == {ItemKey(i) : i \in 1..Len(trashList)}
    IN  [k \in keys |->
           CHOOSE i \in 1..Len(trashList) :
             /\ ItemKey(i) = k
             /\ \A j \in 1..Len(trashList) : ItemKey(j) = k => j <= i]

RecKey(i) == normalize_path_for_comparison(platform, log[i].path)

\* mutant: the callback is handed the number of records instead of
\* total_to_restore
CbEvent_TotalRecords(rec, path, out) ==
    [kind |-> "cb", via |-> "none", rec |-> rec, item |-> 0, out |-> out, path |-> path,
     restored |-> result.restored, total |-> Len(log), errors |-> result.errors,
     not_found |-> result.not_found]

CbEvent(rec, path, out) ==
    [kind |-> "cb", via |-> "none", rec |-> rec, item |-> 0, out |-> out, path |-> path,
     restored |-> result.restored, total |-> total, errors |-> result.errors,
     not_found |-> result.not_found]

RestoreEvent(via, rec, item, out) ==
    [kind |-> "restore", via |-> via, rec |-> rec, item |-> item, out |-> out,
     path |-> trashList[item],
     restored |-> result.restored, total |-> total, errors |-> result.errors,
     not_found |-> result.not_found]

Delta(dr, de, dn, db) == [dr |-> dr, de |-> de, dn |-> dn, db |-> db]

Count(rec, d) ==
    /\ result' = [restored |-> result.restored + d.dr,
                  restored_bytes |-> result.restored_bytes + d.db,
                  errors |-> result.errors + d.de,
                  not_found |-> result.not_found + d.dn]
    /\ contrib' = [contrib EXCEPT ![rec] =
                     [restored |-> @.restored + d.dr, errors |-> @.errors + d.de,
                      not_found |-> @.not_found + d.dn, bytes |-> @.bytes + d.db]]

\* lines 134-157: what the exact-match arm adds to the result
ExactCounts(out, size) ==
    IF out = "ok" THEN Delta(1, 0, 0, size) ELSE Delta(0, 1, 0, 0)

\* mutant: a directory whose children all failed is also counted not_found
FallbackCounts_NotFoundOnFailure(found, rc, re, size) ==
    IF found
    THEN IF rc > 0 THEN Delta(1, re, 0, size) ELSE Delta(0, re, 1, 0)
    ELSE Delta(0, 0, 1, 0)

\* mutant: the logged size is added once per restored child
FallbackCounts_BytesPerChild(found, rc, re, size) ==
    IF found
    THEN IF rc > 0 THEN Delta(1, re, 0, size * rc) ELSE Delta(0, re, 0, 0)
    ELSE Delta(0, 0, 1, 0)

\* mutant: a directory is counted once per restored child
FallbackCounts_PerChild(found, rc, re, size) ==
    IF found
    THEN IF rc > 0 THEN Delta(rc, re, 0, size) ELSE Delta(0, re, 0, 0)
    ELSE Delta(0, 0, 1, 0)

\* mutant: a directory adds at most one error, however many children failed
FallbackCounts_OneErrorPerRecord(found, rc, re, size) ==
    IF found
    THEN IF rc > 0 THEN Delta(1, IF re > 0 THEN 1 ELSE 0, 0, size)
                   ELSE Delta(0, IF re > 0 THEN 1 ELSE 0, 0, 0)
    ELSE Delta(0, 0, 1, 0)

\* mutant: a record that matched nothing is counted as an error
FallbackCounts_NotFoundAsError(found, rc, re, size) ==
    IF found
    THEN IF rc > 0 THEN Delta(1, re, 0, size) ELSE Delta(0, re, 0, 0)
    ELSE Delta(0, 1, 0, 0)

\* lines 205-229: what the directory arm adds to the result after its loop
FallbackCounts(found, rc, re, size) ==
    IF found
    THEN IF rc > 0 THEN Delta(1, re, 0, size) ELSE Delta(0, re, 0, 0)
    ELSE Delta(0, 0, 1, 0)

\* mutant: the callback's Result is dropped
CbNext_IgnoresError(out) == [pc |-> "match", ret |-> "none"]

\* lines 123-129: the `?` on the callback's Result
CbNext(out) ==
    IF out = "err" THEN [pc |-> "done", ret |-> "err"] ELSE [pc |-> "match", ret |-> "none"]

\* ------------------------------------- restore_from_log_with_progress
\* mutant: a failed enumeration is taken for an empty trash store
ListForLog_IgnoresListError ==
    /\ pc = "start" /\ op = "log"
    /\ \/ /\ listed' = "err" /\ bin_map' = <<>>
       \/ /\ listed' = "ok" /\ bin_map' = BuildBinMap
    /\ pc' = "loop"
    /\ total' = Cardinality({i \in 1..Len(log) : Restorable(log[i])})
    /\ UNCHANGED <<call, first, cleanVars, lastErr, sessions, loaded, platform, op, log, target, hasCb, trashList, inTrash, fs, idx, pos,
                   visited, found_any, restored_count, restore_errors, path_bytes,
                   result, events, lookups, contrib, fsAt, ret>>

\* line 90: os_limited::list()?; lines 93-97: total_to_restore; lines 102-109: bin_map
ListForLog ==
    /\ pc = "start" /\ op = "log"
    /\ \/ /\ pc' = "done" /\ ret' = "err" /\ listed' = "err"
          /\ UNCHANGED <<total, bin_map>>
       \/ /\ pc' = "loop" /\ listed' = "ok"
          /\ total' = Cardinality({i \in 1..Len(log) : Restorable(log[i])})
          /\ bin_map' = BuildBinMap
          /\ ret' = ret
    /\ UNCHANGED <<call, first, cleanVars, lastErr, sessions, loaded, platform, op, log, target, hasCb, trashList, inTrash, fs, idx, pos,
                   visited, found_any, restored_count, restore_errors, path_bytes,
                   result, events, lookups, contrib, fsAt>>

\* lines 112-116: continue on a failed or permanent deletion
SkipRecord ==
    /\ pc = "loop" /\ idx <= Len(log)
    /\ ~Restorable(log[idx])
    /\ idx' = idx + 1
    /\ UNCHANGED <<call, first, cleanVars, lastErr, sessions, loaded, listed, platform, op, log, target, hasCb, trashList, inTrash, fs, pc, ret, pos,
                   total, bin_map, visited, found_any, restored_count, restore_errors,
                   path_bytes, result, events, lookups, contrib, fsAt>>

\* lines 121-130: callback(Some(&record_path), ...)?; lines 170-172 reset the
\* fallback's locals for this record
ProgressCallback ==
    /\ pc = "loop" /\ idx <= Len(log)
    /\ Restorable(log[idx])
    /\ \/ /\ ~hasCb
          /\ pc' = "match" /\ UNCHANGED <<events, ret>>
       \/ /\ hasCb
          /\ \E out \in {"ok", "err"} :
               /\ events' = Append(events, CbEvent(idx, log[idx].path, out))
               /\ pc' = CbNext(out).pc /\ ret' = CbNext(out).ret
    /\ fsAt' = [fsAt EXCEPT ![idx] = fs]
    /\ visited' = {} /\ found_any' = FALSE /\ restored_count' = 0 /\ restore_errors' = 0
    /\ UNCHANGED <<call, first, cleanVars, lastErr, sessions, loaded, listed, platform, op, log, target, hasCb, trashList, inTrash, fs, idx, pos,
                   total, bin_map, path_bytes, result, lookups, contrib>>

\* lines 133-157: bin_map.get hit, restore_file, restored or errors
\* lines 146-157: neither arm of the match on restore_file's result leaves the
\* for loop; the next record follows whatever the outcome was
RecordNext_AbortOnError(out) ==
    IF out = "ok" THEN [pc |-> "loop", ret |-> ret] ELSE [pc |-> "done", ret |-> "err"]

RecordNext(out) == [pc |-> "loop", ret |-> ret]

ExactMatch ==
    /\ pc = "match"
    /\ RecKey(idx) \in DOMAIN bin_map
    /\ LET item == bin_map[RecKey(idx)]
       IN  \E o \in restore_file(platform, trashList, item, fs, inTrash) :
             /\ fs' = o.fs /\ inTrash' = o.inTrash
             /\ events' = Append(events, RestoreEvent("exact", idx, item, o.out))
             /\ Count(idx, ExactCounts(o.out, log[idx].size_bytes))
             /\ pc' = RecordNext(o.out).pc /\ ret' = RecordNext(o.out).ret
    /\ lookups' = lookups \cup {idx}
    /\ idx' = idx + 1
    /\ UNCHANGED <<call, first, cleanVars, lastErr, sessions, loaded, listed, platform, op, log, target, hasCb, trashList, pos, total, bin_map,
                   visited, found_any, restored_count, restore_errors, path_bytes, fsAt>>

\* line 176: bin_path.starts_with(&normalized_record_path_with_sep)
IsChild(bin_path, dirKey) == starts_with(bin_path, with_sep(dirKey))

\* lines 174-203: one iteration of `for (bin_path, trash_item) in &bin_map` that
\* passes the test of line 176; the hash map yields its keys in any order.
FallbackStep ==
    /\ pc = "match"
    /\ RecKey(idx) \notin DOMAIN bin_map
    /\ \E k \in DOMAIN bin_map \ visited :
         /\ IsChild(k, RecKey(idx))
         /\ visited' = visited \cup {k}
         /\ found_any' = TRUE
         /\ \E o \in restore_file(platform, trashList, bin_map[k], fs, inTrash) :
              /\ fs' = o.fs /\ inTrash' = o.inTrash
              /\ events' = Append(events, RestoreEvent("prefix", idx, bin_map[k], o.out))
              /\ IF o.out = "ok"
                 THEN restored_count' = restored_count + 1 /\ restore_errors' = restore_errors
                 ELSE restore_errors' = restore_errors + 1 /\ restored_count' = restored_count
    /\ lookups' = lookups \cup {idx}
    /\ UNCHANGED <<call, first, cleanVars, lastErr, sessions, loaded, listed, platform, op, log, target, hasCb, trashList, pc, ret, idx, pos, total,
                   bin_map, path_bytes, result, contrib, fsAt>>

\* lines 205-229: after the loop over bin_map
FallbackTally ==
    /\ pc = "match"
    /\ RecKey(idx) \notin DOMAIN bin_map
    /\ \A k \in DOMAIN bin_map \ visited : ~IsChild(k, RecKey(idx))
    /\ Count(idx, FallbackCounts(found_any, restored_count, restore_errors,
                                 log[idx].size_bytes))
    /\ lookups' = lookups \cup {idx}
    /\ idx' = idx + 1
    /\ pc' = "loop"
    /\ UNCHANGED <<call, first, cleanVars, lastErr, sessions, loaded, listed, platform, op, log, target, hasCb, trashList, inTrash, fs, ret, pos,
                   total, bin_map, visited, found_any, restored_count, restore_errors,
                   path_bytes, events, fsAt>>

\* lines 233-244: the final callback(None, ...)? and Ok(result)
FinalCallback ==
    /\ pc = "loop" /\ idx > Len(log)
    /\ \/ /\ ~hasCb
          /\ ret' = "ok" /\ UNCHANGED events
       \/ /\ hasCb
          /\ \E out \in {"ok", "err"} :
               /\ events' = Append(events, CbEvent(0, None, out))
               /\ ret' = out
    /\ pc' = "done"
    /\ UNCHANGED <<call, first, cleanVars, lastErr, sessions, loaded, listed, platform, op, log, target, hasCb, trashList, inTrash, fs, idx, pos,
                   total, bin_map, visited, found_any, restored_count, restore_errors,
                   path_bytes, result, lookups, contrib, fsAt>>

\* ------------------------------------------------------------ restore_path
TargetKey == normalize_path_for_comparison(platform, target)

MinOf(S) == CHOOSE i \in S : \A j \in S : i <= j

\* line 252: os_limited::list()?
ListForPath ==
    /\ pc = "start" /\ op = "path"
    /\ \/ pc' = "done" /\ ret' = "err" /\ listed' = "err"
       \/ pc' = "p_exact" /\ ret' = ret /\ listed' = "ok"
    /\ UNCHANGED <<call, first, cleanVars, lastErr, sessions, loaded, platform, op, log, target, hasCb, trashList, inTrash, fs, idx, pos,
                   total, bin_map, visited, found_any, restored_count, restore_errors,
                   path_bytes, result, events, lookups, contrib, fsAt>>

\* mutant: a failed exact-match restore is reported as Ok with errors = 1
PathExact_ErrorAsResult ==
    /\ pc = "p_exact"
    /\ LET M == {i \in 1..Len(trashList) : ItemKey(i) = TargetKey}
       IN  /\ M # {}
           /\ \E o \in restore_file(platform, trashList, MinOf(M), fs, inTrash) :
                /\ fs' = o.fs /\ inTrash' = o.inTrash
                /\ events' = Append(events, RestoreEvent("exact", 0, MinOf(M), o.out))
                /\ result' = IF o.out = "ok"
                             THEN [result EXCEPT !.restored = 1,
                                                 !.restored_bytes = FileLen(MinOf(M))]
                             ELSE [result EXCEPT !.errors = 1]
                /\ ret' = "ok"
    /\ pc' = "done"
    /\ UNCHANGED <<call, first, cleanVars, lastErr, sessions, loaded, listed, platform, op, log, target, hasCb, trashList, idx, pos, total, bin_map,
                   visited, found_any, restored_count, restore_errors, path_bytes,
                   lookups, contrib, fsAt>>

\* lines 262-294: the first item of recycle_bin_items whose normalized path equals
\* the target is restored and the call returns, Ok or Err
PathExact ==
    /\ pc = "p_exact"
    /\ LET M == {i \in 1..Len(trashList) : ItemKey(i) = TargetKey}
       IN  /\ M # {}
           /\ \E o \in restore_file(platform, trashList, MinOf(M), fs, inTrash) :
                /\ fs' = o.fs /\ inTrash' = o.inTrash
                /\ events' = Append(events, RestoreEvent("exact", 0, MinOf(M), o.out))
                /\ IF o.out = "ok"
                   THEN /\ result' = [result EXCEPT !.restored = 1,
                                                    !.restored_bytes = FileLen(MinOf(M))]
                        /\ ret' = "ok"
                   ELSE /\ result' = result
                        /\ ret' = "err"
    /\ pc' = "done"
    /\ UNCHANGED <<call, first, cleanVars, lastErr, sessions, loaded, listed, platform, op, log, target, hasCb, trashList, idx, pos, total, bin_map,
                   visited, found_any, restored_count, restore_errors, path_bytes,
                   lookups, contrib, fsAt>>

\* lines 262-301: the first loop ends without a match
PathNoExact ==
    /\ pc = "p_exact"
    /\ \A i \in 1..Len(trashList) : ItemKey(i) # TargetKey
    /\ pc' = "p_scan"
    /\ pos' = 1
    /\ found_any' = FALSE /\ restored_count' = 0 /\ restore_errors' = 0 /\ path_bytes' = 0
    /\ UNCHANGED <<call, first, cleanVars, lastErr, sessions, loaded, listed, platform, op, log, target, hasCb, trashList, inTrash, fs, ret, idx,
                   total, bin_map, visited, result, events, lookups, contrib, fsAt>>

\* mutant: the scan ends at the first child it finds
PathScanStep_FirstChildOnly ==
    /\ pc = "p_scan"
    /\ LET C == {i \in pos..Len(trashList) : IsChild(ItemKey(i), TargetKey)}
       IN  /\ C # {}
           /\ pos' = Len(trashList) + 1
           /\ found_any' = TRUE
           /\ \E o \in restore_file(platform, trashList, MinOf(C), fs, inTrash) :
                /\ fs' = o.fs /\ inTrash' = o.inTrash
                /\ events' = Append(events, RestoreEvent("prefix", 0, MinOf(C), o.out))
                /\ IF o.out = "ok"
                   THEN /\ restored_count' = restored_count + 1
                        /\ path_bytes' = path_bytes + FileLen(MinOf(C))
                        /\ restore_errors' = restore_errors
                   ELSE /\ restore_errors' = restore_errors + 1
                        /\ UNCHANGED <<restored_count, path_bytes>>
    /\ UNCHANGED <<call, first, cleanVars, lastErr, sessions, loaded, listed, platform, op, log, target, hasCb, trashList, pc, ret, idx, total,
                   bin_map, visited, result, lookups, contrib, fsAt>>

\* lines 303-325: the next item of recycle_bin_items, in list order, that passes
\* the test of line 309
PathScanStep ==
    /\ pc = "p_scan"
    /\ LET C == {i \in pos..Len(trashList) : IsChild(ItemKey(i), TargetKey)}
       IN  /\ C # {}
           /\ pos' = MinOf(C) + 1
           /\ found_any' = TRUE
           /\ \E o \in restore_file(platform, trashList, MinOf(C), fs, inTrash) :
                /\ fs' = o.fs /\ inTrash' = o.inTrash
                /\ events' = Append(events, RestoreEvent("prefix", 0, MinOf(C), o.out))
                /\ IF o.out = "ok"
                   THEN /\ restored_count' = restored_count + 1
                        /\ path_bytes' = path_bytes + FileLen(MinOf(C))
                        /\ restore_errors' = restore_errors
                   ELSE /\ restore_errors' = restore_errors + 1
                        /\ UNCHANGED <<restored_count, path_bytes>>
    /\ UNCHANGED <<call, first, cleanVars, lastErr, sessions, loaded, listed, platform, op, log, target, hasCb, trashList, pc, ret, idx, total,
                   bin_map, visited, result, lookups, contrib, fsAt>>

\* mutant: a path that matched nothing is reported as Ok with not_found = 1
PathFinish_NotFoundAsOk ==
    /\ pc = "p_scan"
    /\ \A i \in pos..Len(trashList) : ~IsChild(ItemKey(i), TargetKey)
    /\ result' = IF found_any
                 THEN [restored |-> IF restored_count > 0 THEN 1 ELSE 0,
                       restored_bytes |-> IF restored_count > 0 THEN path_bytes ELSE 0,
                       errors |-> restore_errors,
                       not_found |-> 0]
                 ELSE [ZeroResult EXCEPT !.not_found = 1]
    /\ ret' = "ok"
    /\ pc' = "done"
    /\ UNCHANGED <<call, first, cleanVars, lastErr, sessions, loaded, listed, platform, op, log, target, hasCb, trashList, inTrash, fs, idx, pos,
                   total, bin_map, visited, found_any, restored_count, restore_errors,
                   path_bytes, events, lookups, contrib, fsAt>>

\* lines 327-362
PathFinish ==
    /\ pc = "p_scan"
    /\ \A i \in pos..Len(trashList) : ~IsChild(ItemKey(i), TargetKey)
    /\ IF found_any
       THEN /\ result' = [restored |-> IF restored_count > 0 THEN 1 ELSE 0,
                          restored_bytes |-> IF restored_count > 0 THEN path_bytes ELSE 0,
                          errors |-> restore_errors,
                          not_found |-> 0]
            /\ ret' = "ok"
       ELSE /\ result' = result
            /\ ret' = "err"
    /\ pc' = "done"
    /\ UNCHANGED <<call, first, cleanVars, lastErr, sessions, loaded, listed, platform, op, log, target, hasCb, trashList, inTrash, fs, idx, pos,
                   total, bin_map, visited, found_any, restored_count, restore_errors,
                   path_bytes, events, lookups, contrib, fsAt>>

\* ------------------------------------------------------------ specification
Next ==
    \/ ListForLog
    \/ SkipRecord
    \/ ProgressCallback
    \/ ExactMatch
    \/ FallbackStep
    \/ FallbackTally
    \/ FinalCallback
    \/ ListForPath
    \/ PathExact
    \/ PathNoExact
    \/ PathScanStep
    \/ PathFinish

Spec == Init /\ [][Next]_vars

\* ------------------------------------------------- a second call
InitRerun == Init /\ op = "log"

\* lines 82-90: the caller calls restore_from_log_with_progress again with the
\* same log; the new call starts from a default RestoreResult and enumerates
\* the trash store as the first call left it, in whatever order it is listed
Rerun ==
    /\ op = "log" /\ pc = "done" /\ ret = "ok" /\ call = 1
    /\ call' = 2
    /\ first' = [result |-> result, trashList |-> trashList]
    /\ \E L \in [1..Cardinality(inTrash) -> inTrash] :
         /\ \A a, b \in 1..Cardinality(inTrash) : a # b => L[a] # L[b]
         /\ trashList' = [k \in 1..Cardinality(inTrash) |-> trashList[L[k]]]
    /\ inTrash' = 1..Cardinality(inTrash)
    /\ pc' = "start" /\ ret' = "none"
    /\ idx' = 1 /\ total' = 0 /\ bin_map' = <<>> /\ visited' = {}
    /\ found_any' = FALSE /\ restored_count' = 0 /\ restore_errors' = 0
    /\ result' = ZeroResult
    /\ events' = <<>> /\ lookups' = {}
    /\ contrib' = [i \in 1..Len(log) |-> [restored |-> 0, errors |-> 0, not_found |-> 0,
                                          bytes |-> 0]]
    /\ fsAt' = [i \in 1..Len(log) |-> {}]
    /\ listed' = "none"
    /\ UNCHANGED <<cleanVars, lastErr, sessions, loaded, platform, op, log, target, hasCb,
                   fs, pos, path_bytes>>

NextRerun ==
    \/ ListForLog
    \/ SkipRecord
    \/ ProgressCallback
    \/ ExactMatch
    \/ FallbackStep
    \/ FallbackTally
    \/ FinalCallback
    \/ Rerun

SpecRerun == InitRerun /\ [][NextRerun]_vars

\* ------------------------------------------- restore_last_with_progress
\* the logs a deletion session may have left in the history store
SessionLogs == {l \in Logs : Len(l) = 1 /\ l[1].success}

SessionLists == UNION {[1..n -> SessionLogs] : n \in 0..MaxSessions}

NoHistory == "No deletion history found. Nothing to restore."

InitLast ==
    /\ platform \in {"windows", "unix"}
    /\ op = "log" /\ log = <<>> /\ target = None /\ hasCb \in BOOLEAN
    /\ sessions \in SessionLists
    /\ trashList \in TrashLists
    /\ inTrash = 1..Len(trashList)
    /\ \E S \in FsSeeds : fs = Closure(platform, S)
    /\ pc = "last"
    /\ ret = "none"
    /\ idx = 1
    /\ pos = 1
    /\ total = 0
    /\ bin_map = <<>>
    /\ visited = {}
    /\ found_any = FALSE
    /\ restored_count = 0
    /\ restore_errors = 0
    /\ path_bytes = 0
    /\ result = ZeroResult
    /\ events = <<>>
    /\ lookups = {}
    /\ contrib = <<>>
    /\ fsAt = <<>>
    /\ listed = "none"
    /\ loaded = 0
    /\ lastErr = "none"
    /\ call = 1 /\ first = NoFirst
    /\ CleanIdle

\* mutant: the is_empty() test is missing and an empty history is restored as
\* an empty log
ListLogs_EmptyAsEmptyLog ==
    /\ pc = "last"
    /\ \/ /\ lastErr' = "list_logs" /\ pc' = "done" /\ ret' = "err"
       \/ /\ sessions = <<>>
          /\ pc' = "start" /\ UNCHANGED <<lastErr, ret>>
       \/ /\ sessions # <<>>
          /\ pc' = "load" /\ UNCHANGED <<lastErr, ret>>
    /\ UNCHANGED <<call, first, cleanVars, sessions, loaded, listed, platform, op, log, target, hasCb,
                   trashList, inTrash, fs, idx, pos, total, bin_map, visited, found_any,
                   restored_count, restore_errors, path_bytes, result, events, lookups,
                   contrib, fsAt>>

\* line 46: list_logs()?; lines 48-52: the empty history
ListLogs ==
    /\ pc = "last"
    /\ \/ /\ lastErr' = "list_logs" /\ pc' = "done" /\ ret' = "err"
       \/ /\ sessions = <<>>
          /\ lastErr' = NoHistory /\ pc' = "done" /\ ret' = "err"
       \/ /\ sessions # <<>>
          /\ pc' = "load" /\ UNCHANGED <<lastErr, ret>>
    /\ UNCHANGED <<call, first, cleanVars, sessions, loaded, listed, platform, op, log, target, hasCb,
                   trashList, inTrash, fs, idx, pos, total, bin_map, visited, found_any,
                   restored_count, restore_errors, path_bytes, result, events, lookups,
                   contrib, fsAt>>

\* mutant: the oldest session is loaded instead of the newest
LoadLog_LoadsOldest ==
    /\ pc = "load"
    /\ \/ /\ lastErr' = "load_log" /\ pc' = "done" /\ ret' = "err"
          /\ UNCHANGED <<log, loaded, contrib, fsAt>>
       \/ /\ log' = sessions[Len(sessions)]
          /\ loaded' = Len(sessions)
          /\ contrib' = [i \in 1..Len(sessions[Len(sessions)]) |->
                           [restored |-> 0, errors |-> 0, not_found |-> 0, bytes |-> 0]]
          /\ fsAt' = [i \in 1..Len(sessions[Len(sessions)]) |-> {}]
          /\ pc' = "start"
          /\ UNCHANGED <<lastErr, ret>>
    /\ UNCHANGED <<call, first, cleanVars, sessions, listed, platform, op, target, hasCb,
                   trashList, inTrash, fs, idx, pos, total, bin_map, visited, found_any,
                   restored_count, restore_errors, path_bytes, result, events, lookups>>

\* lines 55-56: load_log(&logs[0])?, then restore_from_log_with_progress on it
LoadLog ==
    /\ pc = "load"
    /\ \/ /\ lastErr' = "load_log" /\ pc' = "done" /\ ret' = "err"
          /\ UNCHANGED <<log, loaded, contrib, fsAt>>
       \/ /\ log' = sessions[1]
          /\ loaded' = 1
          /\ contrib' = [i \in 1..Len(sessions[1]) |->
                           [restored |-> 0, errors |-> 0, not_found |-> 0, bytes |-> 0]]
          /\ fsAt' = [i \in 1..Len(sessions[1]) |-> {}]
          /\ pc' = "start"
          /\ UNCHANGED <<lastErr, ret>>
    /\ UNCHANGED <<call, first, cleanVars, sessions, listed, platform, op, target, hasCb,
                   trashList, inTrash, fs, idx, pos, total, bin_map, visited, found_any,
                   restored_count, restore_errors, path_bytes, result, events, lookups>>

NextLast ==
    \/ ListLogs
    \/ LoadLog
    \/ ListForLog
    \/ SkipRecord
    \/ ProgressCallback
    \/ ExactMatch
    \/ FallbackStep
    \/ FallbackTally
    \/ FinalCallback

SpecLast == InitLast /\ [][NextLast]_vars

\* ------------------------------------------------------------- clean_all
CategoryNames == {"cache", "temp", "trash", "build"}

\* ScanResults: each category with as many items as paths
ScanResultSets ==
    {[c \in CategoryNames |-> CategoryResult(c, n[c])] : n \in [CategoryNames -> 0..MaxPaths]}

White == {" ", "\n", "\r", "\t"}

\* what read_line may store: a line with its newline, or what came before the
\* end of the input
Lines ==
    { <<"y", "\n">>, <<"Y", "\n">>, <<" ", "y", " ", "\r", "\n">>, <<"y">>,
      <<"n", "\n">>, <<"\n">>, <<>>, <<"y", "e", "s", "\n">>, <<"y", " ", "y", "\n">> }

RECURSIVE trim_start(_)
trim_start(s) == IF s # <<>> /\ Head(s) \in White THEN trim_start(Tail(s)) ELSE s

RECURSIVE trim_end(_)
trim_end(s) ==
    IF s # <<>> /\ s[Len(s)] \in White THEN trim_end(SubSeq(s, 1, Len(s) - 1)) ELSE s

\* str::trim
trim(s) == trim_end(trim_start(s))

to_ascii_lowercase(c) ==
    CASE c = "Y" -> "y" [] c = "E" -> "e" [] c = "S" -> "s" [] c = "N" -> "n"
      [] OTHER -> c

\* mutant: the answer only has to begin with the expected text
eq_ignore_ascii_case_Prefix(a, b) ==
    /\ Len(a) >= Len(b)
    /\ \A i \in 1..Len(b) : to_ascii_lowercase(a[i]) = to_ascii_lowercase(b[i])

\* str::eq_ignore_ascii_case
eq_ignore_ascii_case(a, b) ==
    /\ Len(a) = Len(b)
    /\ \A i \in 1..Len(a) : to_ascii_lowercase(a[i]) = to_ascii_lowercase(b[i])

\* lines 10-13
total_items ==
    results["cache"].items + results["temp"].items + results["trash"].items
      + results["build"].items

InitClean ==
    /\ op = "clean"
    /\ options = NoOptions
    /\ results \in ScanResultSets
    /\ skip_confirm \in BOOLEAN
    /\ asked = "no"
    /\ input = <<>>
    /\ cleaned = 0
    /\ errors = 0
    /\ ci = 1
    /\ calls = <<>>
    /\ pc = "c_start"
    /\ ret = "none"
    /\ platform = "unix" /\ log = <<>> /\ target = None /\ hasCb = FALSE
    /\ trashList = <<>> /\ inTrash = {} /\ fs = {}
    /\ idx = 1 /\ pos = 1 /\ total = 0 /\ bin_map = <<>> /\ visited = {}
    /\ found_any = FALSE /\ restored_count = 0 /\ restore_errors = 0 /\ path_bytes = 0
    /\ result = ZeroResult /\ events = <<>> /\ lookups = {}
    /\ contrib = <<>> /\ fsAt = <<>>
    /\ listed = "none" /\ sessions = <<>> /\ loaded = 0 /\ lastErr = "none"
    /\ call = 1 /\ first = NoFirst

\* the variables of the restore operations
restoreVars ==
    <<platform, op, log, target, hasCb, trashList, inTrash, fs, idx, pos, total, bin_map,
      visited, found_any, restored_count, restore_errors, path_bytes, result, events,
      lookups, contrib, fsAt, listed, sessions, loaded, lastErr, call, first>>

\* lines 10-20: nothing to clean, or on to the prompt or to the first category
CleanStart ==
    /\ pc = "c_start"
    /\ IF total_items = 0
       THEN pc' = "done" /\ ret' = "ok"
       ELSE /\ pc' = IF skip_confirm THEN "c_cache" ELSE "c_confirm"
            /\ ret' = ret
    /\ UNCHANGED <<restoreVars, cleanVars>>

\* lines 21-30: the prompt; flush()? and read_line()? return their errors
Confirm ==
    /\ pc = "c_confirm"
    /\ \/ /\ asked' = "flush_err" /\ input' = input
          /\ pc' = "done" /\ ret' = "err"
       \/ /\ asked' = "read_err" /\ input' = input
          /\ pc' = "done" /\ ret' = "err"
       \/ \E line \in Lines :
            /\ asked' = "read" /\ input' = line
            /\ IF ~eq_ignore_ascii_case(trim(line), <<"y">>)
               THEN pc' = "done" /\ ret' = "ok"
               ELSE pc' = "c_cache" /\ ret' = ret
    /\ UNCHANGED <<restoreVars, options, results, skip_confirm, cleaned, errors, ci, calls>>

CleanCall(cat, path, out) == [cat |-> cat, path |-> path, out |-> out]

\* mutant: the first failure ends the category's loop
CleanPaths_StopsOnError(cat, here, next) ==
    /\ pc = here
    /\ IF results[cat].items > 0 /\ ci <= Len(results[cat].paths)
       THEN \E out \in {"ok", "err"} :
              /\ calls' = Append(calls, CleanCall(cat, results[cat].paths[ci], out))
              /\ cleaned' = IF out = "ok" THEN cleaned + 1 ELSE cleaned
              /\ errors' = IF out = "ok" THEN errors ELSE errors + 1
              /\ ci' = IF out = "ok" THEN ci + 1 ELSE Len(results[cat].paths) + 1
              /\ UNCHANGED <<pc, ret>>
       ELSE /\ pc' = next
            /\ ret' = IF next = "done" THEN "ok" ELSE ret
            /\ ci' = 1
            /\ UNCHANGED <<calls, cleaned, errors>>
    /\ UNCHANGED <<restoreVars, options, results, skip_confirm, asked, input>>

\* lines 37-48, 51-62, 77-88: one category's for loop over its paths, one
\* iteration per step
CleanPaths(cat, here, next) ==
    /\ pc = here
    /\ IF results[cat].items > 0 /\ ci <= Len(results[cat].paths)
       THEN \E out \in {"ok", "err"} :
              /\ calls' = Append(calls, CleanCall(cat, results[cat].paths[ci], out))
              /\ cleaned' = IF out = "ok" THEN cleaned + 1 ELSE cleaned
              /\ errors' = IF out = "ok" THEN errors ELSE errors + 1
              /\ ci' = ci + 1
              /\ UNCHANGED <<pc, ret>>
       ELSE /\ pc' = next
            /\ ret' = IF next = "done" THEN "ok" ELSE ret
            /\ ci' = 1
            /\ UNCHANGED <<calls, cleaned, errors>>
    /\ UNCHANGED <<restoreVars, options, results, skip_confirm, asked, input>>

CleanCache == CleanPaths("cache", "c_cache", "c_temp")

CleanTemp == CleanPaths("temp", "c_temp", "c_trash")

\* lines 65-74: one call empties the trash store
CleanTrash ==
    /\ pc = "c_trash"
    /\ IF results["trash"].items > 0
       THEN \E out \in {"ok", "err"} :
              /\ calls' = Append(calls, CleanCall("trash", None, out))
              /\ cleaned' = IF out = "ok" THEN cleaned + results["trash"].items ELSE cleaned
              /\ errors' = IF out = "ok" THEN errors ELSE errors + 1
       ELSE UNCHANGED <<calls, cleaned, errors>>
    /\ pc' = "c_build"
    /\ UNCHANGED <<restoreVars, options, results, skip_confirm, asked, input, ci, ret>>

\* lines 77-96
CleanBuild == CleanPaths("build", "c_build", "done")

NextClean ==
    \/ CleanStart
    \/ Confirm
    \/ CleanCache
    \/ CleanTemp
    \/ CleanTrash
    \/ CleanBuild

SpecClean == InitClean /\ [][NextClean]_vars

\* -------------------------------------------------------------- scan_all
InitScan ==
    /\ op = "scan"
    /\ options \in [CategoryNames -> BOOLEAN]
    /\ results = NoResults
    /\ skip_confirm = FALSE
    /\ asked = "no"
    /\ input = <<>>
    /\ cleaned = 0
    /\ errors = 0
    /\ ci = 1
    /\ calls = <<>>
    /\ pc = "s_cache"
    /\ ret = "none"
    /\ platform = "unix" /\ log = <<>> /\ target = None /\ hasCb = FALSE
    /\ trashList = <<>> /\ inTrash = {} /\ fs = {}
    /\ idx = 1 /\ pos = 1 /\ total = 0 /\ bin_map = <<>> /\ visited = {}
    /\ found_any = FALSE /\ restored_count = 0 /\ restore_errors = 0 /\ path_bytes = 0
    /\ result = ZeroResult /\ events = <<>> /\ lookups = {}
    /\ contrib = <<>> /\ fsAt = <<>>
    /\ listed = "none" /\ sessions = <<>> /\ loaded = 0 /\ lastErr = "none"
    /\ call = 1 /\ first = NoFirst

\* what a detector returned: Err, or Ok with its result
ScanCall(cat, out, res) == [cat |-> cat, path |-> None, out |-> out, res |-> res]

\* mutant: the detector's error is returned with '?'
ScanCategory_PropagatesError(cat, here, next) ==
    /\ pc = here
    /\ IF options[cat]
       THEN \/ /\ calls' = Append(calls, ScanCall(cat, "err", NoResults[cat]))
               /\ results' = results
               /\ pc' = "done" /\ ret' = "err"
            \/ \E n \in 0..MaxPaths :
                 /\ calls' = Append(calls, ScanCall(cat, "ok", CategoryResult(cat, n)))
                 /\ results' = [results EXCEPT ![cat] = CategoryResult(cat, n)]
                 /\ pc' = next
                 /\ ret' = IF next = "done" THEN "ok" ELSE ret
       ELSE /\ UNCHANGED <<calls, results>>
            /\ pc' = next
            /\ ret' = IF next = "done" THEN "ok" ELSE ret
    /\ UNCHANGED <<restoreVars, options, skip_confirm, asked, input, cleaned, errors, ci>>

\* lines 13-18, 20-25, 27-32, 34-39: one category's detector, if enabled; its
\* Ok result is stored, its error only printed
ScanCategory(cat, here, next) ==
    /\ pc = here
    /\ IF options[cat]
       THEN \/ /\ calls' = Append(calls, ScanCall(cat, "err", NoResults[cat]))
               /\ results' = results
            \/ \E n \in 0..MaxPaths :
                 /\ calls' = Append(calls, ScanCall(cat, "ok", CategoryResult(cat, n)))
                 /\ results' = [results EXCEPT ![cat] = CategoryResult(cat, n)]
       ELSE UNCHANGED <<calls, results>>
    /\ pc' = next
    /\ ret' = IF next = "done" THEN "ok" ELSE ret
    /\ UNCHANGED <<restoreVars, options, skip_confirm, asked, input, cleaned, errors, ci>>

ScanCache == ScanCategory("cache", "s_cache", "s_temp")

ScanTemp == ScanCategory("temp", "s_temp", "s_trash")

ScanTrash == ScanCategory("trash", "s_trash", "s_build")

\* lines 34-41
ScanBuild == ScanCategory("build", "s_build", "done")

NextScan ==
    \/ ScanCache
    \/ ScanTemp
    \/ ScanTrash
    \/ ScanBuild

SpecScan == InitScan /\ [][NextScan]_vars

\* ================================================================ claims
\* Vocabulary of the claims, stated on the inputs and on the recorded history.
NotRestorable(r) == r.success = FALSE \/ r.permanent = TRUE

NRestorable == Cardinality({i \in 1..Len(log) : ~NotRestorable(log[i])})

\* the record's turn of the for loop has completed
Processed(i) == op = "log" /\ i \in 1..Len(log) /\ i < idx /\ ~NotRestorable(log[i])

ReturnedOk == op = "log" /\ pc = "done" /\ ret = "ok"

RestoreEvs(i) == {j \in 1..Len(events) : events[j].kind = "restore" /\ events[j].rec = i}

OkEvs(i) == {j \in RestoreEvs(i) : events[j].out = "ok"}

FailedEvs(i) == {j \in RestoreEvs(i) : events[j].out # "ok"}

AllFailedEvs == {j \in 1..Len(events) : events[j].kind = "restore" /\ events[j].out # "ok"}

Sum3(r) == r.restored + r.errors + r.not_found

\* the record's normalized path is the normalized original path of a listed entry
RecMatchesEntry(i) ==
    \E t \in 1..Len(trashList) :
      normalize_path_for_comparison(platform, trashList[t])
        = normalize_path_for_comparison(platform, log[i].path)

\* C1: a record with success == false or permanent == true causes no lookup in
\* the trash index and no restore attempt, and adds nothing to restored, errors,
\* not_found or restored_bytes, whatever the trash store holds.
C1_SkippedRecordsUntouched ==
    op = "log" =>
      \A i \in 1..Len(log) :
        NotRestorable(log[i]) =>
          /\ i \notin lookups
          /\ RestoreEvs(i) = {}
          /\ \A j \in 1..Len(events) : events[j].kind = "cb" => events[j].rec # i
          /\ contrib[i] = [restored |-> 0, errors |-> 0, not_found |-> 0, bytes |-> 0]

\* witness of C1: a finished run over a log with a failed record and a permanent
\* record, both naming a path that is in the trash
C1_Witness ==
    /\ ReturnedOk /\ Len(log) = 2
    /\ log[1].success = FALSE /\ log[2].success /\ log[2].permanent
    /\ RecMatchesEntry(1) /\ RecMatchesEntry(2)

\* C2 as stated: on Ok, restored + errors + not_found = number of restorable records.
C2_Original == ReturnedOk => Sum3(result) = NRestorable

\* C2 amended: on Ok, every restorable record is counted exactly once in
\* restored, in not_found, or among the records all of whose restore attempts
\* failed, and errors is the number of failed restore attempts (one per failed
\* child of a directory record); so restored + errors + not_found >= the number
\* of restorable records.
C2_Amended ==
    ReturnedOk =>
      /\ result.restored + result.not_found
           + Cardinality({i \in 1..Len(log) : RestoreEvs(i) # {} /\ OkEvs(i) = {}})
         = NRestorable
      /\ result.errors = Cardinality(AllFailedEvs)
      /\ Sum3(result) >= NRestorable

\* witness of C2: a directory record with two children in the trash, one
\* restored and one failed
C2_Witness ==
    /\ ReturnedOk
    /\ \E i \in 1..Len(log) :
         /\ Cardinality(OkEvs(i)) = 1 /\ Cardinality(FailedEvs(i)) = 1
         /\ \A j \in RestoreEvs(i) : events[j].via = "prefix"

\* C3 as stated: at every point restored + errors + not_found <= the number of
\* records considered so far.
C3_Original == op = "log" => Sum3(result) <= idx - 1

\* C3 amended: each processed record is counted at most once in restored and
\* not_found together, a record counted not_found adds nothing to restored or
\* errors, an exact-match record adds exactly 1 in all, and a directory record
\* adds one error per failed child; so at every point
\* restored + not_found <= the number of restorable records considered so far,
\* and errors <= the number of failed restore attempts.
C3_Amended ==
    op = "log" =>
      /\ \A i \in 1..Len(log) :
           /\ contrib[i].restored + contrib[i].not_found <= 1
           /\ contrib[i].not_found = 1 => contrib[i].errors = 0
           /\ (Processed(i) /\ \E j \in RestoreEvs(i) : events[j].via = "exact")
                => Sum3(contrib[i]) = 1
           /\ Processed(i) => contrib[i].errors = Cardinality(FailedEvs(i))
           /\ Processed(i) => Sum3(contrib[i]) >= 1
      /\ result.restored + result.not_found
           <= Cardinality({i \in 1..Len(log) : Processed(i)})
      /\ result.errors <= Cardinality(AllFailedEvs)

\* witness of C3: a directory record both of whose children failed to restore
C3_Witness ==
    /\ op = "log"
    /\ \E i \in 1..Len(log) : Processed(i) /\ contrib[i].errors = 2

Norm(p) == normalize_path_for_comparison(platform, p)

\* k lies under directory p: p, then a separator, then more
SepChild(k, p) ==
    /\ Len(k) > Len(p)
    /\ SubSeq(k, 1, Len(p)) = p
    /\ k[Len(p) + 1] = "/"

\* k has p as a proper string prefix that does not end at a separator boundary
BarePrefix(k, p) ==
    /\ Len(k) > Len(p)
    /\ SubSeq(k, 1, Len(p)) = p
    /\ k[Len(p) + 1] # "/"

\* the path an operation looks for: record i's, or restore_path's argument
Wanted(i) == IF op = "log" THEN Norm(log[i].path) ELSE Norm(target)

NothingMatches(p) ==
    \A t \in 1..Len(trashList) :
      Norm(trashList[t]) # p /\ ~SepChild(Norm(trashList[t]), p)

\* C4: the directory fallback of restore_from_log_with_progress and of
\* restore_path attempts an entry only if its normalized original path is the
\* target path followed by a separator; when no entry matches exactly or as such
\* a child, nothing is attempted, the record is counted not_found
\* (restore_from_log_with_progress) or the call fails (restore_path).
C4_PrefixGuard ==
    /\ \A j \in 1..Len(events) :
         (events[j].kind = "restore" /\ events[j].via = "prefix")
           => SepChild(Norm(events[j].path), Wanted(events[j].rec))
    /\ \A i \in 1..Len(log) :
         (Processed(i) /\ NothingMatches(Wanted(i)))
           => /\ RestoreEvs(i) = {}
              /\ contrib[i] = [restored |-> 0, errors |-> 0, not_found |-> 1, bytes |-> 0]
    /\ (op = "path" /\ pc = "done" /\ NothingMatches(Wanted(0)))
         => ret = "err" /\ events = <<>> /\ inTrash = 1..Len(trashList)

\* witness of C4: a record counted not_found while the trash holds an entry that
\* has the record's path as a bare string prefix
C4_Witness ==
    \E i \in 1..Len(log) :
      /\ Processed(i) /\ contrib[i].not_found = 1
      /\ \E t \in 1..Len(trashList) : BarePrefix(Norm(trashList[t]), Wanted(i))
      /\ inTrash = 1..Len(trashList)

AllChildren(i) == {t \in 1..Len(trashList) : SepChild(Norm(trashList[t]), Wanted(i))}

\* the children the index holds: per normalized path, the last one enumerated
IndexedChildren(i) ==
    {t \in AllChildren(i) :
       \A u \in AllChildren(i) : Norm(trashList[u]) = Norm(trashList[t]) => u <= t}

DestFreeAt(i, t) == FsKey(platform, trashList[t]) \notin fsAt[i]

DirCase(i) ==
    /\ Processed(i)
    /\ ~RecMatchesEntry(i)
    /\ AllChildren(i) # {}
    /\ \A t \in AllChildren(i) : DestFreeAt(i, t)

CountedRestoredOnce(i) ==
    contrib[i] = [restored |-> 1, errors |-> 0, not_found |-> 0,
                  bytes |-> log[i].size_bytes]

ExactEntry(i) ==
    CHOOSE t \in 1..Len(trashList) :
      /\ Norm(trashList[t]) = Wanted(i)
      /\ \A u \in 1..Len(trashList) : Norm(trashList[u]) = Wanted(i) => u <= t

\* record i matches an entry exactly and that entry was still in the trash when
\* the record's turn came
ExactLiveCase(i) ==
    /\ Processed(i)
    /\ RecMatchesEntry(i)
    /\ \A j \in 1..Len(events) :
         (events[j].kind = "restore" /\ events[j].out = "ok"
            /\ events[j].item = ExactEntry(i)) => events[j].rec = i

\* C6 as stated: an exact-match record is counted in restored iff its
\* destination does not exist when it is processed, else in errors.
C6_Original ==
    \A i \in 1..Len(log) :
      ExactLiveCase(i) =>
        /\ contrib[i].restored = 1 <=> DestFreeAt(i, ExactEntry(i))
        /\ ~DestFreeAt(i, ExactEntry(i)) => contrib[i].errors = 1

\* C6 amended: an exact-match record is counted in restored iff its destination
\* does not exist when it is processed and neither create_dir_all nor the
\* restore capability fails; in every other case it is counted in errors, and
\* exactly one restore is attempted for it.
C6_Amended ==
    \A i \in 1..Len(log) :
      ExactLiveCase(i) =>
        /\ Cardinality(RestoreEvs(i)) = 1
        /\ \A j \in RestoreEvs(i) :
             /\ events[j].item = ExactEntry(i)
             /\ contrib[i].restored = 1
                  <=> /\ DestFreeAt(i, ExactEntry(i))
                      /\ events[j].out \notin {"cap_failed", "mkdir_failed"}
        /\ contrib[i].restored = 1 => ExactEntry(i) \notin inTrash
        /\ contrib[i].restored + contrib[i].errors = 1
        /\ contrib[i].not_found = 0

\* witness of C6: one exact-match record restored and another refused because
\* its destination existed
C6_Witness ==
    \E i, k \in 1..Len(log) :
      /\ ExactLiveCase(i) /\ ExactLiveCase(k)
      /\ contrib[i].restored = 1 /\ DestFreeAt(i, ExactEntry(i))
      /\ contrib[k].errors = 1 /\ ~DestFreeAt(k, ExactEntry(k))

\* the step calls restore_file on an item whose destination exists
RefusedStep ==
    /\ Len(events') = Len(events) + 1
    /\ events'[Len(events')].kind = "restore"
    /\ FsKey(platform, events'[Len(events')].path) \in fs

\* C7: whenever restore_file is called on an item whose destination already
\* exists, the restore capability is not invoked (the outcome is the
\* destination-exists error), the filesystem and the trash store are left as
\* they were, nothing is counted as restored, and the attempt is reported as a
\* failure (errors or restore_errors + 1, or Err from restore_path's exact arm).
C7_CollisionPolicy ==
    [][RefusedStep =>
         /\ events'[Len(events')].out = "exists"
         /\ fs' = fs
         /\ inTrash' = inTrash
         /\ result'.restored = result.restored
         /\ restored_count' = restored_count
         /\ (op = "log" /\ events'[Len(events')].via = "exact")
              => result'.errors = result.errors + 1
         /\ events'[Len(events')].via = "prefix"
              => restore_errors' = restore_errors + 1
         /\ (op = "path" /\ events'[Len(events')].via = "exact")
              => ret' = "err" /\ pc' = "done"]_vars

\* witness of C7: a refused restore of an item that is still in the trash and
\* whose destination existed before the call began
C7_Witness ==
    \E j \in 1..Len(events) :
      /\ events[j].kind = "restore" /\ events[j].out = "exists"
      /\ events[j].item \in inTrash
      /\ j = 1
      /\ FsKey(platform, events[j].path) \in fs

\* C8: when the progress callback returns an error for record K, the call
\* returns that error at once: that invocation is the last event of the run, no
\* restore was attempted and no lookup made for record K or a later one, the
\* counters are those passed to the callback, and every item restored before
\* stays restored.
C8_Cancellation ==
    \A j \in 1..Len(events) :
      (events[j].kind = "cb" /\ events[j].out = "err") =>
        /\ j = Len(events)
        /\ pc = "done" /\ ret = "err"
        /\ events[j].rec # 0 =>
             /\ \A k \in 1..Len(events) :
                  events[k].kind = "restore" => events[k].rec < events[j].rec
             /\ \A i \in lookups : i < events[j].rec
             /\ idx = events[j].rec
        /\ result.restored = events[j].restored
        /\ result.errors = events[j].errors
        /\ result.not_found = events[j].not_found
        /\ \A k \in 1..Len(events) :
             (events[k].kind = "restore" /\ events[k].out = "ok") =>
               /\ events[k].item \notin inTrash
               /\ FsKey(platform, events[k].path) \in fs

\* witness of C8: the callback fails on the second record after the first
\* record was restored
C8_Witness ==
    /\ Len(events) = 3
    /\ events[1].kind = "cb" /\ events[1].out = "ok"
    /\ events[2].kind = "restore" /\ events[2].out = "ok"
    /\ events[3].kind = "cb" /\ events[3].out = "err" /\ events[3].rec = 2
    /\ RecMatchesEntry(2)

CbEvs == {j \in 1..Len(events) : events[j].kind = "cb"}

\* C9: in a run with a callback that returns Ok and never sees the callback
\* fail, the callback is invoked exactly once per restorable record, with that
\* record's path, before every restore attempt for that record and after every
\* restore attempt of earlier records, and once more, last, with no path:
\* N + 1 invocations for N restorable records.
C9_CallbackPerRecord ==
    (ReturnedOk /\ hasCb) =>
      /\ Cardinality(CbEvs) = NRestorable + 1
      /\ Len(events) \in CbEvs
      /\ events[Len(events)].path = None /\ events[Len(events)].rec = 0
      /\ \A j \in CbEvs \ {Len(events)} :
           /\ events[j].rec \in 1..Len(log)
           /\ ~NotRestorable(log[events[j].rec])
           /\ events[j].path = log[events[j].rec].path
      /\ \A i \in 1..Len(log) :
           ~NotRestorable(log[i]) =>
             Cardinality({j \in CbEvs : events[j].rec = i}) = 1
      /\ \A j \in CbEvs : \A k \in 1..Len(events) :
           events[k].kind = "restore" =>
             IF events[j].rec # 0 /\ events[j].rec <= events[k].rec
             THEN j < k
             ELSE k < j

\* witness of C9: a finished run with a callback over two restorable records,
\* each with a restore attempt
C9_Witness ==
    /\ ReturnedOk /\ hasCb
    /\ NRestorable = 2
    /\ RestoreEvs(1) # {} /\ RestoreEvs(2) # {}

RECURSIVE SumRestoredSizes(_)
SumRestoredSizes(n) ==
    IF n = 0 THEN 0
    ELSE SumRestoredSizes(n - 1)
           + (IF contrib[n].restored >= 1 THEN log[n].size_bytes ELSE 0)

\* C10: on Ok, restored_bytes is the sum of size_bytes over exactly the records
\* counted in restored, each contributing its logged size once; records counted
\* only in errors or not_found and skipped records contribute 0.
C10_RestoredBytes ==
    ReturnedOk =>
      /\ result.restored_bytes = SumRestoredSizes(Len(log))
      /\ \A i \in 1..Len(log) :
           contrib[i].bytes = IF contrib[i].restored >= 1 THEN log[i].size_bytes ELSE 0
      /\ \A i \in 1..Len(log) :
           contrib[i].restored >= 1 <=> OkEvs(i) # {}

\* witness of C10: one file record restored by exact match, one directory record
\* restored through its child, each adding its own size
C10_Witness ==
    /\ ReturnedOk /\ Len(log) = 2
    /\ result.restored_bytes = log[1].size_bytes + log[2].size_bytes
    /\ \E i, k \in 1..2 :
         /\ \E j \in OkEvs(i) : events[j].via = "exact"
         /\ \E j \in OkEvs(k) : events[j].via = "prefix"

\* C11: a restorable record is counted in not_found exactly when the trash
\* snapshot holds no entry whose normalized original path equals the record's
\* normalized path and none that starts with that path plus a separator; over an
\* empty trash the call ends with restored = 0, errors = 0 and not_found = the
\* number of restorable records, the others not being counted.
C11_NotFoundIff ==
    /\ \A i \in 1..Len(log) :
         Processed(i) =>
           /\ contrib[i].not_found \in {0, 1}
           /\ contrib[i].not_found = 1 <=> NothingMatches(Norm(log[i].path))
    /\ (ReturnedOk /\ trashList = <<>>) =>
         result = [restored |-> 0, restored_bytes |-> 0, errors |-> 0,
                   not_found |-> NRestorable]

C11_Witness ==
    /\ ReturnedOk /\ Len(log) = 2 /\ NRestorable = 2 /\ trashList # <<>>
    /\ contrib[1].not_found = 1
    /\ contrib[2].not_found = 0
    /\ \E t \in 1..Len(trashList) : Len(trashList[t]) = Len(log[1].path)

NoCbFailure == \A j \in CbEvs : events[j].out = "ok"

\* C13: when the trash enumeration succeeds and the callback never fails, no
\* per-record failure ends restore_from_log_with_progress: the call returns Ok
\* and every restorable record has been looked up and counted, whatever
\* collisions, capability failures or not_found results came before it.
C13_FailuresDoNotAbort ==
    (op = "log" /\ listed = "ok" /\ NoCbFailure) =>
      /\ ret # "err"
      /\ pc = "done" =>
           /\ ret = "ok"
           /\ idx = Len(log) + 1
           /\ \A i \in 1..Len(log) :
                ~NotRestorable(log[i]) => (i \in lookups /\ Sum3(contrib[i]) >= 1)

C13_Witness ==
    /\ ReturnedOk /\ Len(log) = 2
    /\ \E j \in RestoreEvs(1) : events[j].out = "cap_failed"
    /\ contrib[1].errors = 1
    /\ contrib[2].restored = 1

\* C14: when enumerating the trash store fails, restore_from_log_with_progress
\* and restore_path return an error at once: no callback has been invoked, no
\* record looked up, no restore attempted, and the trash and the filesystem are
\* as they were.
C14_ListFailure ==
    [][listed' = "err" =>
         /\ pc' = "done" /\ ret' = "err"
         /\ events' = <<>> /\ lookups' = {}
         /\ result' = ZeroResult
         /\ fs' = fs
         /\ inTrash' = 1..Len(trashList)]_vars

C14_Witness ==
    /\ listed = "err" /\ pc = "done" /\ ret = "err"
    /\ op = "log" /\ hasCb /\ NRestorable = 2
    /\ Len(trashList) = 2
    /\ RecMatchesEntry(1)

\* C15: restore_path(p) never reports a missing path through not_found: when no
\* trash entry matches p exactly or as p plus a separator the whole call returns
\* an error with nothing attempted and nothing removed from the trash, and a
\* call that returns Ok had a match.
C15_PathNoMatchIsError ==
    op = "path" =>
      /\ result.not_found = 0
      /\ (pc = "done" /\ listed = "ok" /\ NothingMatches(Norm(target))) =>
           /\ ret = "err"
           /\ events = <<>>
           /\ inTrash = 1..Len(trashList)
           /\ result = ZeroResult
      /\ (pc = "done" /\ ret = "ok") => ~NothingMatches(Norm(target))

C15_Witness ==
    /\ op = "path" /\ pc = "done" /\ listed = "ok" /\ ret = "err"
    /\ NothingMatches(Norm(target))
    /\ \E t \in 1..Len(trashList) : BarePrefix(Norm(trashList[t]), Norm(target))

\* lower-cased with the separators unified
Fold(p) == [i \in 1..Len(p) |-> Lower(IF p[i] = "\\" THEN "/" ELSE p[i])]

SameWhenCompared(a, b) == IF platform = "windows" THEN Fold(a) = Fold(b) ELSE a = b

ExactEvs(i) == {j \in RestoreEvs(i) : events[j].via = "exact"}

\* C16: on the case-insensitive platform a record is matched exactly with an
\* entry when the two paths are equal once lower-cased and with separators
\* unified, so paths differing only in case or separator style match; on the
\* case-sensitive platform the paths are compared as they are, so paths that
\* differ in case do not match exactly.
C16_NormalizedMatching ==
    \A i \in 1..Len(log) :
      Processed(i) =>
        /\ ExactEvs(i) # {} <=>
             \E t \in 1..Len(trashList) : SameWhenCompared(trashList[t], log[i].path)
        /\ \A j \in ExactEvs(i) : SameWhenCompared(events[j].path, log[i].path)

C16_Witness ==
    /\ platform = "windows"
    /\ \E i \in 1..Len(log) :
         /\ Processed(i)
         /\ log[i].path = R_wB
         /\ contrib[i].restored = 1
         /\ \E j \in ExactEvs(i) : events[j].path = P_b /\ events[j].out = "ok"

FirstRestorable == MinOf({i \in 1..Len(log) : ~NotRestorable(log[i])})

\* the filesystem when the call began: nothing changes it before the first
\* restorable record's turn
FsAtCall == fsAt[FirstRestorable]

\* C17 as stated: a record's outcome does not depend on the records processed
\* before it, so its exact-match attempt is refused for an existing destination
\* exactly when the destination existed when the call began.
C17_Original ==
    \A i \in 1..Len(log) :
      Processed(i) =>
        \A j \in ExactEvs(i) :
          events[j].out = "exists" <=> FsKey(platform, events[j].path) \in FsAtCall

\* C17: what is looked up for a record does not depend on the records processed
\* before it: the entries attempted for it are the snapshot's entry with its
\* normalized path, or else the snapshot's children of that path, and it is
\* counted not_found exactly when the snapshot has neither. The outcome of the
\* attempt does depend on them: it is refused exactly when the destination
\* exists when the record's turn begins, which includes what earlier records
\* restored or created.
C17_Amended ==
    \A i \in 1..Len(log) :
      Processed(i) =>
        /\ {events[j].item : j \in RestoreEvs(i)} =
             IF RecMatchesEntry(i) THEN {ExactEntry(i)} ELSE IndexedChildren(i)
        /\ contrib[i].not_found = 1 <=> (~RecMatchesEntry(i) /\ AllChildren(i) = {})
        /\ \A j \in ExactEvs(i) :
             events[j].out = "exists" <=> FsKey(platform, events[j].path) \in fsAt[i]
        /\ FsAtCall \subseteq fsAt[i]

C17_Witness ==
    /\ ReturnedOk /\ Len(log) = 2
    /\ log[1].path = P_b /\ log[2].path = P_bx
    /\ ~RecMatchesEntry(1)
    /\ contrib[1].restored = 1
    /\ \E j \in ExactEvs(2) :
         /\ events[j].out = "exists"
         /\ FsKey(platform, events[j].path) \notin FsAtCall

RestorablePaths ==
    LET R == SelectSeq(log, LAMBDA r : ~NotRestorable(r))
    IN  [k \in 1..Len(R) |-> R[k].path]

CbPaths ==
    LET E == SelectSeq(events, LAMBDA e : e.kind = "cb" /\ e.rec # 0)
    IN  [k \in 1..Len(E) |-> E[k].path]

\* C18: records are processed in log order: the paths handed to the callback
\* are, in order, the paths of the restorable records in log order (all of them
\* once the call has returned Ok), and every callback and restore attempt for a
\* record comes before any for a record later in the log.
C18_LogOrder ==
    op = "log" =>
      /\ Len(CbPaths) <= Len(RestorablePaths)
      /\ CbPaths = SubSeq(RestorablePaths, 1, Len(CbPaths))
      /\ (ReturnedOk /\ hasCb) => CbPaths = RestorablePaths
      /\ \A j, k \in 1..Len(events) :
           (j < k /\ events[j].rec # 0 /\ events[k].rec # 0) =>
             /\ events[j].rec <= events[k].rec
             /\ (events[k].kind = "cb" => events[j].rec < events[k].rec)

C18_Witness ==
    /\ ReturnedOk /\ hasCb /\ Len(log) = 2 /\ NRestorable = 2
    /\ log[1].path # log[2].path
    /\ RestoreEvs(1) # {} /\ RestoreEvs(2) # {}

RECURSIVE AccBefore(_, _)
\* what records 1..n added to counter f
AccBefore(n, f) == IF n = 0 THEN 0 ELSE AccBefore(n - 1, f) + contrib[n][f]

\* C19: every callback invocation receives the restored, errors and not_found
\* counters accumulated from the records fully processed before it and the same
\* total, the number of restorable records; the last, path-less invocation
\* receives the counters of the RestoreResult the call returns.
C19_CallbackCounters ==
    \A j \in CbEvs :
      LET e == events[j]
          upto == IF e.rec = 0 THEN Len(log) ELSE e.rec - 1
      IN  /\ e.total = NRestorable
          /\ e.restored = AccBefore(upto, "restored")
          /\ e.errors = AccBefore(upto, "errors")
          /\ e.not_found = AccBefore(upto, "not_found")
          /\ e.rec = 0 =>
               /\ pc = "done"
               /\ e.restored = result.restored
               /\ e.errors = result.errors
               /\ e.not_found = result.not_found

C19_Witness ==
    /\ ReturnedOk /\ hasCb /\ Len(log) = 2 /\ NRestorable = 2
    /\ result.restored = 1 /\ result.errors >= 1
    /\ \E j \in CbEvs : events[j].rec = 2 /\ events[j].errors >= 1 /\ events[j].restored = 0
    /\ \E j \in CbEvs : events[j].rec = 0 /\ events[j].restored = 1

\* C12: when list_logs() returns an empty sequence, restore_last and
\* restore_last_with_progress return the error 'No deletion history found.
\* Nothing to restore.' with the trash store not enumerated, the callback not
\* invoked, no log loaded and nothing restored: the trash, the filesystem and
\* the counters are as they were.
C12_EmptyHistory ==
    [][(sessions = <<>> /\ lastErr' # "list_logs") =>
         /\ pc' = "done" /\ ret' = "err" /\ lastErr' = NoHistory
         /\ listed' = "none"
         /\ loaded' = 0
         /\ events' = <<>> /\ lookups' = {}
         /\ result' = ZeroResult
         /\ fs' = fs
         /\ inTrash' = 1..Len(trashList)]_vars

C12_Witness ==
    /\ sessions = <<>> /\ pc = "done" /\ ret = "err" /\ lastErr = NoHistory
    /\ hasCb
    /\ Len(trashList) = 2
    /\ fs = {}

\* the line is a single y or Y with nothing but whitespace around it
AnsweredYes ==
    \E k \in 1..Len(input) :
      /\ input[k] \in {"y", "Y"}
      /\ \A i \in 1..Len(input) : i # k => input[i] \in White

\* C20: clean_all removes nothing unless the batch is authorized: when
\* skip_confirm is false and the line read is anything but 'y' (trimmed, in
\* either case), no category clean operation is invoked, nothing is counted
\* cleaned and the call returns Ok; a clean operation is invoked only when
\* skip_confirm is true or the line read is such a 'y'.
C20_CleanNeedsAuthorization ==
    op = "clean" =>
      /\ calls # <<>> => (skip_confirm \/ (asked = "read" /\ AnsweredYes))
      /\ (~skip_confirm /\ asked = "read" /\ ~AnsweredYes) =>
           /\ calls = <<>> /\ cleaned = 0 /\ errors = 0
           /\ pc = "done" /\ ret = "ok"
      /\ (~skip_confirm /\ asked # "read") => (calls = <<>> /\ cleaned = 0)

C20_Witness ==
    /\ op = "clean" /\ pc = "done" /\ ret = "ok"
    /\ ~skip_confirm /\ asked = "read"
    /\ input = <<"y", "e", "s", "\n">>
    /\ results["cache"].items = 2 /\ results["trash"].items = 1
    /\ calls = <<>>

CallsOf(cat) == {j \in 1..Len(calls) : calls[j].cat = cat}

\* C21: scan_all never fails because a detector failed: whatever detectors
\* fail, the call returns Ok; a failing category's result is the empty default;
\* every enabled detector is invoked exactly once and, when it succeeds, its
\* result is stored as returned; a disabled category is never invoked and stays
\* empty.
C21_ScanSurvivesFailures ==
    op = "scan" =>
      /\ ret # "err"
      /\ \A c \in CategoryNames :
           /\ Cardinality(CallsOf(c)) <= 1
           /\ ~options[c] => (CallsOf(c) = {} /\ results[c] = [items |-> 0, paths |-> <<>>])
           /\ \A j \in CallsOf(c) :
                results[c] = IF calls[j].out = "ok" THEN calls[j].res
                             ELSE [items |-> 0, paths |-> <<>>]
      /\ pc = "done" =>
           /\ ret = "ok"
           /\ \A c \in CategoryNames : options[c] => Cardinality(CallsOf(c)) = 1

C21_Witness ==
    /\ op = "scan" /\ pc = "done" /\ ret = "ok"
    /\ options = [c \in CategoryNames |-> c # "temp"]
    /\ \E j \in CallsOf("cache") : calls[j].out = "err"
    /\ \E j \in CallsOf("trash") : calls[j].out = "err"
    /\ results["build"].items = 2 /\ Len(results["build"].paths) = 2
    /\ results["cache"].items = 0

Authorized == skip_confirm \/ (asked = "read" /\ AnsweredYes)

CleanFinished == op = "clean" /\ pc = "done" /\ Authorized

ScannedPaths ==
    Len(results["cache"].paths) + Len(results["temp"].paths)
      + Len(results["trash"].paths) + Len(results["build"].paths)

FailedCalls == {j \in 1..Len(calls) : calls[j].out = "err"}

\* C22 as stated: once authorized, every candidate path of every category is
\* attempted exactly once, so there are as many clean operations as candidate
\* paths and each ends either in cleaned or in errors.
C22_Original ==
    CleanFinished =>
      /\ ret = "ok"
      /\ Len(calls) = ScannedPaths
      /\ errors = Cardinality(FailedCalls)
      /\ cleaned + errors = ScannedPaths

\* the clean operations a path-wise category with items > 0 asks for
PathCalls(c) ==
    IF results[c].items > 0
    THEN [k \in 1..Len(results[c].paths) |-> <<c, results[c].paths[k]>>]
    ELSE <<>>

\* the trash store is emptied by one operation that takes no path
TrashCalls == IF results["trash"].items > 0 THEN << <<"trash", None>> >> ELSE <<>>

ExpectedCalls == PathCalls("cache") \o PathCalls("temp") \o TrashCalls \o PathCalls("build")

MadeCalls == [j \in 1..Len(calls) |-> <<calls[j].cat, calls[j].path>>]

OkCalls(c) == {j \in 1..Len(calls) : calls[j].cat = c /\ calls[j].out = "ok"}

\* C22: once authorized, clean_all invokes, in the order cache, temp, trash,
\* build, one clean operation per path of the cache, temp and build categories
\* that have items, and one single operation for the whole trash store when it
\* has items; a failed operation adds one to errors (also the trash one,
\* however many items it stood for), a successful one adds one to cleaned (the
\* trash one adds trash.items), the remaining operations are still invoked,
\* and the call returns Ok whatever the number of failures.
C22_Amended ==
    op = "clean" =>
      /\ Len(MadeCalls) <= Len(ExpectedCalls)
      /\ MadeCalls = SubSeq(ExpectedCalls, 1, Len(MadeCalls))
      /\ errors = Cardinality(FailedCalls)
      /\ cleaned = Cardinality(OkCalls("cache")) + Cardinality(OkCalls("temp"))
                     + Cardinality(OkCalls("build"))
                     + (IF OkCalls("trash") # {} THEN results["trash"].items ELSE 0)
      /\ CleanFinished => (ret = "ok" /\ MadeCalls = ExpectedCalls)

C22_Witness ==
    /\ CleanFinished /\ ret = "ok" /\ ~skip_confirm
    /\ results["cache"].items = 2 /\ results["trash"].items = 2
    /\ results["build"].items = 1 /\ results["temp"].items = 0
    /\ Len(calls) = 4
    /\ calls[1].out = "err" /\ calls[2].out = "ok"
    /\ calls[3].out = "err" /\ calls[4].out = "ok"
    /\ errors = 2 /\ cleaned = 2

\* the entry's normalized path is the record's, or lies under it
EntryOfRecord(t, r) ==
    \/ Norm(trashList[t]) = Norm(r.path)
    \/ SepChild(Norm(trashList[t]), Norm(r.path))

\* C23: restore_last reconciles the records of the session at index 0 of
\* list_logs() and of no other: the log worked on is that session's, every
\* callback and every restore attempt is for one of its records; and when
\* list_logs() or load_log of that session fails the error is returned with
\* the trash store not enumerated and nothing restored.
C23_NewestSession ==
    /\ [](/\ loaded \in {0, 1}
          /\ loaded = 0 => (log = <<>> /\ events = <<>> /\ listed = "none")
          /\ loaded = 1 => log = sessions[1]
          /\ \A j \in 1..Len(events) :
               events[j].rec # 0 =>
                 /\ events[j].rec \in 1..Len(sessions[1])
                 /\ ~NotRestorable(sessions[1][events[j].rec])
                 /\ events[j].kind = "cb" => events[j].path = sessions[1][events[j].rec].path
                 /\ events[j].kind = "restore" =>
                      EntryOfRecord(events[j].item, sessions[1][events[j].rec])
          /\ \A t \in 1..Len(trashList) :
               t \notin inTrash => \E i \in 1..Len(sessions[1]) :
                                     EntryOfRecord(t, sessions[1][i]))
    /\ [][lastErr' \in {"list_logs", "load_log"} =>
            /\ pc' = "done" /\ ret' = "err"
            /\ listed' = "none"
            /\ events' = <<>> /\ lookups' = {}
            /\ result' = ZeroResult
            /\ fs' = fs
            /\ inTrash' = 1..Len(trashList)]_vars

C23_Witness ==
    /\ pc = "done" /\ ret = "ok" /\ loaded = 1
    /\ Len(sessions) = 2
    /\ ~NotRestorable(sessions[1][1]) /\ ~NotRestorable(sessions[2][1])
    /\ Norm(sessions[1][1].path) # Norm(sessions[2][1].path)
    /\ result.restored = 1
    /\ \E t \in inTrash : Norm(trashList[t]) = Norm(sessions[2][1].path)

\* record i was handled by the directory fallback and the index held children
FallbackCase(i) == Processed(i) /\ ~RecMatchesEntry(i) /\ IndexedChildren(i) # {}

\* C24: a restorable record handled by the directory fallback with c >= 1
\* children in the index, of which s restores succeed and f = c - s fail, adds
\* 1 to restored if s > 0 and 0 otherwise, its size_bytes to restored_bytes
\* only if s > 0, exactly f to errors and 0 to not_found; every one of the c
\* children is attempted once, also after a sibling failed.
C24_DirectoryAccounting ==
    \A i \in 1..Len(log) :
      FallbackCase(i) =>
        LET c == Cardinality(IndexedChildren(i))
            sOk == Cardinality(OkEvs(i))
            f == Cardinality(FailedEvs(i))
        IN  /\ {events[j].item : j \in RestoreEvs(i)} = IndexedChildren(i)
            /\ Cardinality(RestoreEvs(i)) = c
            /\ sOk + f = c
            /\ contrib[i] = [restored |-> IF sOk > 0 THEN 1 ELSE 0,
                             errors |-> f,
                             not_found |-> 0,
                             bytes |-> IF sOk > 0 THEN log[i].size_bytes ELSE 0]

C24_Witness ==
    \E i \in 1..Len(log) :
      /\ FallbackCase(i)
      /\ Cardinality(IndexedChildren(i)) = 2
      /\ \E j, k \in RestoreEvs(i) :
           j < k /\ events[j].out = "cap_failed" /\ events[k].out = "ok"
      /\ contrib[i].restored = 1 /\ contrib[i].errors = 1

AllRestoreEvs == {j \in 1..Len(events) : events[j].kind = "restore"}

AttemptedItems == {events[j].item : j \in AllRestoreEvs}

RestoredItems == {events[j].item : j \in {k \in AllRestoreEvs : events[k].out = "ok"}}

\* what both entry points are said to attempt for the normalized path p over
\* the snapshot: the entry enumerated last with that path, else the children
\* the index holds
SnapshotAttempts(p) ==
    LET E == {t \in 1..Len(trashList) : Norm(trashList[t]) = p}
        Ch == {t \in 1..Len(trashList) : SepChild(Norm(trashList[t]), p)}
    IN  IF E # {}
        THEN {t \in E : \A u \in E : u <= t}
        ELSE {t \in Ch : \A u \in Ch : Norm(trashList[u]) = Norm(trashList[t]) => u <= t}

\* a call on a single restorable record, or on a single path, has finished its
\* work on the snapshot
SingleLogDone == op = "log" /\ Len(log) = 1 /\ Processed(1)

SinglePathDone == op = "path" /\ pc = "done" /\ listed = "ok"

\* C25 as stated: restore_path(p) and restore_from_log_with_progress on the
\* single restorable record p attempt the same set of trash entries and leave
\* the same entries in the trash, on every trash-store content.
C25_Original ==
    /\ SingleLogDone =>
         /\ AttemptedItems = SnapshotAttempts(Norm(log[1].path))
         /\ inTrash = (1..Len(trashList)) \ RestoredItems
    /\ SinglePathDone =>
         /\ AttemptedItems = SnapshotAttempts(Norm(target))
         /\ inTrash = (1..Len(trashList)) \ RestoredItems

DistinctKeys ==
    \A t, u \in 1..Len(trashList) : t # u => Norm(trashList[t]) # Norm(trashList[u])

\* C25: when no two entries of the snapshot have the same normalized original
\* path, restore_path(p) and restore_from_log_with_progress on the single
\* restorable record p attempt the same set of trash entries, each once: the
\* entry with that path, else every child of it; in both an entry leaves the
\* trash exactly when its attempt succeeded. With entries sharing a path they
\* differ: restore_path takes the first enumerated exact match and attempts
\* every child, the log call takes the last enumerated entry of each path.
C25_Amended ==
    /\ (SingleLogDone /\ DistinctKeys) =>
         /\ AttemptedItems = SnapshotAttempts(Norm(log[1].path))
         /\ Cardinality(AllRestoreEvs) = Cardinality(AttemptedItems)
    /\ (SinglePathDone /\ DistinctKeys) =>
         /\ AttemptedItems = SnapshotAttempts(Norm(target))
         /\ Cardinality(AllRestoreEvs) = Cardinality(AttemptedItems)
    /\ (SinglePathDone /\ ~DistinctKeys) =>
         /\ \A t \in AttemptedItems :
              Norm(trashList[t]) = Norm(target) =>
                \A u \in 1..Len(trashList) : Norm(trashList[u]) = Norm(target) => t <= u
         /\ NothingMatches(Norm(target)) \/ AttemptedItems # {}
         /\ (\A u \in 1..Len(trashList) : Norm(trashList[u]) # Norm(target)) =>
              AttemptedItems = {t \in 1..Len(trashList) :
                                  SepChild(Norm(trashList[t]), Norm(target))}
    /\ (SingleLogDone \/ SinglePathDone) =>
         inTrash = (1..Len(trashList)) \ RestoredItems

C25_Witness ==
    /\ SinglePathDone /\ DistinctKeys /\ ret = "ok"
    /\ Len(trashList) = 2
    /\ Cardinality(AttemptedItems) = 2
    /\ \E j \in AllRestoreEvs : events[j].out = "cap_failed"
    /\ Cardinality(RestoredItems) = 1

\* no create_dir_all and no restore capability call failed in the run
NoEnvFailure == \A j \in AllRestoreEvs : events[j].out \in {"ok", "exists"}

\* C26: for a fixed log, snapshot and filesystem the result and the restored
\* entries of restore_from_log_with_progress do not depend on the order in
\* which the directory fallback meets the index's entries: when nothing in the
\* environment fails, the children of a directory record that are refused are
\* those whose destination existed when the record's turn began, the others
\* are restored, and the counters follow.
C26_OrderIndependent ==
    (ReturnedOk /\ NoEnvFailure) =>
      \A i \in 1..Len(log) :
        FallbackCase(i) =>
          /\ {events[j].item : j \in FailedEvs(i)} =
               {t \in IndexedChildren(i) : ~DestFreeAt(i, t)}
          /\ contrib[i].errors =
               Cardinality({t \in IndexedChildren(i) : ~DestFreeAt(i, t)})

\* the two runs of restore_from_log_with_progress on the log [/b], the snapshot
\* [/b/x, /b/x/z] and an empty filesystem that differ only in the order of the
\* fallback's iteration
NestedInput ==
    /\ op = "log" /\ Len(log) = 1 /\ log[1].path = P_b /\ ~NotRestorable(log[1])
    /\ trashList = <<P_bx, P_bxz>>
    /\ fsAt[1] = {}
    /\ ReturnedOk /\ NoEnvFailure

ParentFirstRun == NestedInput /\ result.errors = 0 /\ inTrash = {}

ChildFirstRun == NestedInput /\ result.errors = 1 /\ inTrash = {1}

\* C27: within one call of restore_from_log_with_progress no trash entry is
\* restored successfully more than once, even when several records match it:
\* once an entry has been restored, every later attempt on it in the call is
\* refused because its destination exists, and is counted in errors.
C27_RestoredOnce ==
    op = "log" =>
      /\ \A j, k \in AllRestoreEvs :
           (j < k /\ events[j].item = events[k].item /\ events[j].out = "ok") =>
             events[k].out = "exists"
      /\ \A t \in 1..Len(trashList) :
           Cardinality({j \in AllRestoreEvs : events[j].item = t /\ events[j].out = "ok"}) <= 1
      /\ \A i \in 1..Len(log) :
           Processed(i) => contrib[i].errors = Cardinality(FailedEvs(i))

C27_Witness ==
    /\ ReturnedOk /\ Len(log) = 2
    /\ Norm(log[1].path) = Norm(log[2].path)
    /\ \E j \in ExactEvs(1), k \in ExactEvs(2) :
         /\ events[j].item = events[k].item
         /\ events[j].out = "ok" /\ events[k].out = "exists"
    /\ contrib[2].errors = 1 /\ result.restored = 1

SecondCallOk == ReturnedOk /\ call = 2

NothingRestored ==
    result = [restored |-> 0, restored_bytes |-> 0, errors |-> 0,
              not_found |-> NRestorable]

\* C28 as stated: after a call that returned with errors = 0, a second call
\* with the same log against the trash store as the first call left it restores
\* nothing and returns restored = 0, restored_bytes = 0, errors = 0 and
\* not_found = the number of restorable records.
C28_Original ==
    (SecondCallOk /\ first.result.errors = 0) => NothingRestored

\* every entry the first call left in the trash matches no restorable record,
\* neither exactly nor as a child
LeftoversMatchNothing ==
    \A i \in 1..Len(log) : ~NotRestorable(log[i]) => NothingMatches(Norm(log[i].path))

\* C28: ... provided that the first call left in the trash no entry that
\* matches a restorable record exactly or as a child (errors = 0 does not
\* ensure it: an entry shadowed in the index by a later one with the same path,
\* and the entries under a path that was matched exactly, stay in the trash and
\* are attempted by the second call): then the second call attempts nothing,
\* leaves the trash and the filesystem as they were and returns restored = 0,
\* restored_bytes = 0, errors = 0 and not_found = the number of restorable
\* records.
C28_Amended ==
    /\ []((SecondCallOk /\ first.result.errors = 0 /\ LeftoversMatchNothing) =>
           /\ NothingRestored
           /\ AllRestoreEvs = {}
           /\ inTrash = 1..Len(trashList))
    /\ [][(call = 2 /\ first.result.errors = 0 /\ LeftoversMatchNothing) => fs' = fs]_vars

C28_Witness ==
    /\ SecondCallOk /\ LeftoversMatchNothing
    /\ first.result.errors = 0 /\ first.result.restored = 2 /\ Len(log) = 2
    /\ Len(first.trashList) = 2
    /\ result.not_found = 2

\* the exact-match restore of restore_path was attempted and failed
ExactRestoreFailed ==
    /\ op = "path"
    /\ \E j \in AllRestoreEvs :
         /\ events[j].via = "exact"
         /\ Norm(trashList[events[j].item]) = Norm(target)
         /\ events[j].out # "ok"

\* C29: in restore_path, once the restore of an entry matching the path exactly
\* has failed the call is over and has returned an error: that attempt is the
\* only one of the call (no other exact match, no child), every other entry is
\* still in the trash and no result is returned; and whenever restore_path
\* returns Ok its result has restored <= 1 and not_found = 0.
C29_ExactFailureIsError ==
    /\ ExactRestoreFailed =>
         /\ pc = "done" /\ ret = "err"
         /\ Cardinality(AllRestoreEvs) = 1
         /\ inTrash = 1..Len(trashList)
         /\ result = ZeroResult
    /\ (op = "path" /\ pc = "done" /\ ret = "ok") =>
         /\ result.restored <= 1
         /\ result.not_found = 0

C29_Witness ==
    /\ ExactRestoreFailed /\ pc = "done"
    /\ Len(trashList) = 2
    /\ \E t \in 1..Len(trashList) :
         /\ t \notin AttemptedItems
         /\ SepChild(Norm(trashList[t]), Norm(target))

\* the entries of the snapshot whose normalized path is p
EntriesWithPath(p) == {t \in 1..Len(trashList) : Norm(trashList[t]) = Norm(p)}

\* the last enumerated of them
LastEntryWithPath(p) ==
    CHOOSE t \in EntriesWithPath(p) : \A u \in EntriesWithPath(p) : u <= t

\* C30: in restore_from_log_with_progress, when the snapshot holds one or more
\* entries whose normalized path is a record's, at most one restore is
\* attempted for that record and it is of the last enumerated of those entries;
\* at most one of them leaves the trash, and the others are attempted by
\* nothing in the call and stay in the trash.
C30_LastDuplicateOnly ==
    op = "log" =>
      \A i \in 1..Len(log) :
        EntriesWithPath(log[i].path) # {} =>
          /\ Cardinality(RestoreEvs(i)) <= 1
          /\ \A j \in RestoreEvs(i) :
               /\ events[j].via = "exact"
               /\ events[j].item = LastEntryWithPath(log[i].path)
          /\ \A t \in EntriesWithPath(log[i].path) \ {LastEntryWithPath(log[i].path)} :
               t \in inTrash /\ t \notin AttemptedItems
          /\ Cardinality(EntriesWithPath(log[i].path) \ inTrash) <= 1

C30_Witness ==
    /\ ReturnedOk
    /\ Len(trashList) = 2 /\ Len(log) >= 1
    /\ Cardinality(EntriesWithPath(log[1].path)) = 2
    /\ \E j \in RestoreEvs(1) : events[j].out = "ok" /\ events[j].item = 2
    /\ inTrash = {1}

====
